---- MODULE Spec2Model ----
(***************************************************************************)
(* A model of the CouchDB-backed versioned state database (statecouchdb)   *)
(* and of the ledger manager of the fabric repository.                     *)
(*                                                                         *)
(* Byte strings (namespaces, keys, document ids, values) are sequences of  *)
(* byte values.  The CouchDB client (package couchdb) is a collaborator    *)
(* whose contract is taken from the specification: a document store with   *)
(* a volatile view (docs) and a durable view (disk).                       *)
(***************************************************************************)
EXTENDS Integers, Sequences, FiniteSets, TLC

VARIABLES
    docs,       \* the store as requests see it: document id -> document
    disk,       \* the part of the store that is on stable storage
    updateSeq,  \* the store's change sequence (one step per document update)
    nCallers,   \* how many ApplyUpdates calls the caller allows in flight
    pc,         \* per caller: the step of ApplyUpdates it is at
    batch,      \* per caller: the UpdateBatch of its call
    height,     \* per caller: the height of its call
    todo,       \* per caller: the batch entries the range loop has not visited
    seqRead,    \* per caller: dbInfo.UpdateSeq read by recordSavepoint
    callIdx,    \* per caller: index of its call in history
    history,    \* one record per ApplyUpdates call started (for the claims)
    issued,     \* the data document writes issued and not lost in a crash
    databases,  \* VersionedDBProvider.databases: lowercased name -> handle
    mux,        \* VersionedDBProvider.mux: the thread holding it, or 0
    couchDBs,   \* per database name: how often the store has created it
    nHandles,   \* the VersionedDB objects allocated so far
    tpc,        \* per thread: the step of GetDBHandle it is at
    tname,      \* per thread: dbName
    tvdb,       \* per thread: vdb
    returned,   \* the (name, handle) pairs GetDBHandle has returned
    scanner,    \* the kvScanner a range scan returned: cursor, namespace, results
    scanArgs,   \* the arguments of the range scan
    yielded,    \* what the calls of Next have returned so far
    cmp,        \* two (namespace, key) pairs and their composite keys
    qscanner,   \* the queryScanner ExecuteQuery returned: cursor, results
    qyielded,   \* what the calls of Next on it have returned so far
    queryArgs,  \* the query of ExecuteQuery and the error it returned
    latest,     \* a call of GetLatestSavePoint: the store's answer, the result
    initialized,    \* ledgermgmt: initialized
    once,           \* ledgermgmt: whether once.Do has run its function
    openedLedgers,  \* ledgermgmt: the map ledger id -> handle, or the nil map
    ledgerProvider, \* ledgermgmt: the kvledger provider, or nil
    handles,        \* the ClosableLedgers wrapLedger has made: id, closed or not
    mgrRet,         \* what the last ledgermgmt call was and what it returned
    mgrFailure      \* the panic that ended the process, or "none"

dbVars == <<docs, disk, updateSeq, nCallers, pc, batch, height, todo, seqRead,
            callIdx, history, issued>>

provVars == <<databases, mux, couchDBs, nHandles, tpc, tname, tvdb, returned>>

scanVars == <<scanner, scanArgs, yielded>>

mgrVars == <<initialized, once, openedLedgers, ledgerProvider, handles, mgrRet, mgrFailure>>

queryVars == <<qscanner, qyielded, queryArgs, latest>>

vars == <<dbVars, provVars, scanVars, cmp, mgrVars, queryVars>>

OnlyDB == UNCHANGED <<provVars, scanVars, cmp, mgrVars, queryVars>>
OnlyProvider == UNCHANGED <<dbVars, scanVars, cmp, mgrVars, queryVars>>
OnlyScan == UNCHANGED <<dbVars, provVars, cmp, mgrVars, queryVars>>
OnlyCmp == UNCHANGED <<dbVars, provVars, scanVars, mgrVars, queryVars>>
OnlyMgr == UNCHANGED <<dbVars, provVars, scanVars, cmp, queryVars>>
OnlyQuery == UNCHANGED <<dbVars, provVars, scanVars, cmp, mgrVars>>

----------------------------------------------------------------------------
(* Bounds of the model.                                                    *)

\* ApplyUpdates calls started in one behaviour
MaxCalls == 2

\* threads calling GetDBHandle
NumThreads == 2

\* length of the namespaces and keys whose composite keys are compared
MaxLen == 2

\* calls of Next on a scanner after the one that found it exhausted
MaxExtraNext == 1

\* ledgers the ledger manager wraps in one behaviour
MaxLedgers == 3

----------------------------------------------------------------------------
(* Byte strings.                                                           *)

\* bytes.Compare(a, b) < 0: byte-lexicographic order, a proper prefix first
RECURSIVE BytesLess(_, _)
BytesLess(a, b) ==
    IF b = <<>> THEN FALSE
    ELSE IF a = <<>> THEN TRUE
    ELSE IF Head(a) # Head(b) THEN Head(a) < Head(b)
    ELSE BytesLess(Tail(a), Tail(b))

BytesLeq(a, b) == a = b \/ BytesLess(a, b)

HasByte(s, b) == \E i \in 1..Len(s) : s[i] = b

compositeKeySep == <<0>>

lastKeyIndicator == 1

\* "statedb_savepoint"
savepointDocID ==
    <<115, 116, 97, 116, 101, 100, 98, 95, 115, 97, 118, 101, 112, 111, 105, 110, 116>>

\* constructCompositeKey without the separator
constructCompositeKey_NoSep(ns, key) == ns \o key

constructCompositeKey(ns, key) == (ns \o compositeKeySep) \o key

----------------------------------------------------------------------------
(* The backing store (package couchdb), from its contract.                 *)

\* a Go []byte result: nil, or the bytes
NilBytes == [isNil |-> TRUE, bytes |-> <<>>]
SomeBytes(b) == [isNil |-> FALSE, bytes |-> b]

\* valid JSON text, over the texts the model uses: an object {...} or a
\* number (ASCII digits)
IsJSON(v) ==
    /\ v # <<>>
    /\ \/ v[1] = 123 /\ v[Len(v)] = 125
       \/ \A i \in 1..Len(v) : v[i] \in 48..57

\* SaveDoc(id, "", bytesDoc, attachments): a blind overwrite of the document
\* at id; rev counts the revisions of that document
SaveDoc(store, id, bytesDoc, attachments) ==
    LET rev == IF id \in DOMAIN store THEN store[id].rev + 1 ELSE 1
        doc == [body |-> bytesDoc, atts |-> attachments, rev |-> rev]
    IN  [i \in DOMAIN store \cup {id} |-> IF i = id THEN doc ELSE store[i]]

\* ReadDoc(id): nil when there is no document (404); the attachment bytes of
\* a document saved with an attachment; else the JSON body
ReadDoc(store, id) ==
    IF id \notin DOMAIN store THEN NilBytes
    ELSE IF store[id].atts # <<>> THEN SomeBytes(store[id].atts[1].AttachmentBytes)
    ELSE SomeBytes(store[id].body)

\* a nil error, and the errors of the store (transport failure, rejection)
NoErr == "nil"
StoreErrors == {"connection refused", "internal server error"}
WriteErrors == {"connection refused"}

\* the answers the store can give to ReadDoc(id): the document, or an error
ReadDocAnswers(store, id) ==
    {[err |-> NoErr, docBytes |-> ReadDoc(store, id)]}
        \cup {[err |-> e, docBytes |-> NilBytes] : e \in StoreErrors}

\* the answers the store can give to EnsureFullCommit: (dbResponse, err)
FlushAnswers ==
    {[err |-> NoErr, Ok |-> TRUE], [err |-> NoErr, Ok |-> FALSE]}
        \cup {[err |-> e, Ok |-> FALSE] : e \in WriteErrors}

----------------------------------------------------------------------------
(* Inputs.                                                                 *)

Height(b, t) == [BlockNum |-> b, TxNum |-> t]

Heights == {Height(1, 2), Height(2, 0)}

CK(ns, key) == [Namespace |-> ns, Key |-> key]

\* "{}", "100" (JSON); 0xDEAD, 0xBEEF (not JSON)
ValJSONObj == <<123, 125>>
ValJSONNum == <<49, 48, 48>>
ValBinA == <<222, 173>>
ValBinB == <<190, 239>>

NsA == <<97>>
NsB == <<98>>
KeyX == <<120>>
KeyY == <<121>>

VV(v) == [Value |-> v, Version |-> Height(1, 1)]

\* the UpdateBatches callers pass: batch.KVs, a map CompositeKey -> VersionedValue
Batches ==
    { (CK(NsA, KeyX) :> VV(ValJSONObj)) @@ (CK(NsA, KeyY) :> VV(ValBinA)),
      (CK(NsA, KeyX) :> VV(ValBinB)) }

----------------------------------------------------------------------------
(* VersionedDB reads.                                                      *)

\* the absent result of GetState: (nil, nil)
Absent == [isNil |-> TRUE, Value |-> <<>>, Version |-> Height(0, 0)]

\* GetState with "not found" taken for a failure of the read
GetState_NotFoundIsError(ns, key, answer) ==
    IF answer.err # NoErr \/ answer.docBytes.isNil
    THEN [vv |-> Absent, err |-> IF answer.err # NoErr THEN answer.err ELSE "not found"]
    ELSE [vv |-> [isNil |-> FALSE, Value |-> answer.docBytes.bytes, Version |-> Height(1, 1)],
          err |-> NoErr]

\* GetState, given the store's answer to the point read: (value, err)
GetState(ns, key, answer) ==
    IF answer.err # NoErr THEN [vv |-> Absent, err |-> answer.err]
    ELSE IF answer.docBytes.isNil THEN [vv |-> Absent, err |-> NoErr]
    ELSE [vv |-> [isNil |-> FALSE, Value |-> answer.docBytes.bytes, Version |-> Height(1, 1)],
          err |-> NoErr]

\* json.Marshal(couchSavepointData): the object text, its three field values
\* in declaration order between the braces
MarshalSavepoint(sp) == <<123, sp.BlockNum, sp.TxNum, sp.UpdateSeq, 125>>

ErrUnmarshal == "json: cannot unmarshal"

\* "null" and "{}"
JSONNull == <<110, 117, 108, 108>>
JSONEmptyObject == <<123, 125>>

\* json.Unmarshal(b, &savepointDoc) with savepointDoc a *couchSavepointData:
\* the three fields of a marshalled savepoint; zero fields for "{}"; for
\* "null" the pointer is set to nil without an error; an error for any
\* other text
UnmarshalSavepoint(b) ==
    IF Len(b) = 5 /\ b[1] = 123 /\ b[5] = 125
    THEN [err |-> NoErr, null |-> FALSE, BlockNum |-> b[2], TxNum |-> b[3], UpdateSeq |-> b[4]]
    ELSE IF b = JSONEmptyObject
    THEN [err |-> NoErr, null |-> FALSE, BlockNum |-> 0, TxNum |-> 0, UpdateSeq |-> 0]
    ELSE IF b = JSONNull
    THEN [err |-> NoErr, null |-> TRUE, BlockNum |-> 0, TxNum |-> 0, UpdateSeq |-> 0]
    ELSE [err |-> ErrUnmarshal, null |-> FALSE, BlockNum |-> 0, TxNum |-> 0, UpdateSeq |-> 0]

\* savepointDoc.BlockNum on the nil pointer
PanicNilPointer == "panic: invalid memory address or nil pointer dereference"

\* GetLatestSavePoint with the error of json.Unmarshal dropped
GetLatestSavePoint_DropsUnmarshalError(answer) ==
    IF answer.err # NoErr THEN [height |-> Height(0, 0), err |-> answer.err]
    ELSE IF answer.docBytes.isNil THEN [height |-> Height(0, 0), err |-> NoErr]
    ELSE LET sp == UnmarshalSavepoint(answer.docBytes.bytes)
         IN  [height |-> Height(sp.BlockNum, sp.TxNum), err |-> NoErr]

\* GetLatestSavePoint, given the store's answer to the read of the savepoint
\* document: (height, err); the panic of the nil pointer is given as err
GetLatestSavePoint(answer) ==
    IF answer.err # NoErr THEN [height |-> Height(0, 0), err |-> answer.err]
    ELSE IF answer.docBytes.isNil THEN [height |-> Height(0, 0), err |-> NoErr]
    ELSE LET sp == UnmarshalSavepoint(answer.docBytes.bytes)
         IN  IF sp.err # NoErr THEN [height |-> Height(0, 0), err |-> sp.err]
             ELSE IF sp.null THEN [height |-> Height(0, 0), err |-> PanicNilPointer]
             ELSE [height |-> Height(sp.BlockNum, sp.TxNum), err |-> NoErr]

----------------------------------------------------------------------------
(* VersionedDB.ApplyUpdates, one store round trip per step.                *)

Callers == 1..nCallers

InFlight == {c \in Callers : pc[c] # "idle"}

\* what ReadDoc gives for every key of the inputs (for the history)
DataKeys == UNION {DOMAIN b : b \in Batches}
Snapshot(store) ==
    [ck \in DataKeys |-> ReadDoc(store, constructCompositeKey(ck.Namespace, ck.Key))]

ErrFullCommit == "Failed to perform full commit"

\* the call returns err from the step at (no step that returns changes a
\* document)
Finish(c, err, at) ==
    /\ pc' = [pc EXCEPT ![c] = "idle"]
    /\ history' = [history EXCEPT ![callIdx[c]].returned = err,
                                  ![callIdx[c]].at = at,
                                  ![callIdx[c]].post = Snapshot(docs),
                                  ![callIdx[c]].spAfter = ReadDoc(docs, savepointDocID)]

\* the call is entered: the range loop over batch.KVs has visited nothing
Start(c, b, h) ==
    /\ pc[c] = "idle"
    /\ Len(history) < MaxCalls
    /\ pc' = [pc EXCEPT ![c] = "write"]
    /\ batch' = [batch EXCEPT ![c] = b]
    /\ height' = [height EXCEPT ![c] = h]
    /\ todo' = [todo EXCEPT ![c] = DOMAIN b]
    /\ callIdx' = [callIdx EXCEPT ![c] = Len(history) + 1]
    /\ history' = Append(history,
            [batch |-> b, height |-> h, returned |-> "running", at |-> "running",
             pre |-> Snapshot(docs), spBefore |-> ReadDoc(docs, savepointDocID),
             post |-> Snapshot(docs), spAfter |-> ReadDoc(docs, savepointDocID),
             written |-> {}, spSeq |-> -1, crashedAfter |-> FALSE])
    /\ UNCHANGED <<docs, disk, updateSeq, nCallers, seqRead, issued>>

\* the document ApplyUpdates saves for a value: the JSON body, or one binary
\* attachment
Attachment(v) ==
    [AttachmentBytes |-> v, ContentType |-> "application/octet-stream", Name |-> "valueBytes"]

\* SaveValue with the attachment list of a binary value left empty
SaveValue_DropAttachment(store, compositeKey, v) ==
    IF IsJSON(v) THEN SaveDoc(store, compositeKey, v, <<>>)
    ELSE SaveDoc(store, compositeKey, <<>>, <<>>)

SaveValue(store, compositeKey, v) ==
    IF IsJSON(v) THEN SaveDoc(store, compositeKey, v, <<>>)
    ELSE SaveDoc(store, compositeKey, <<>>, <<Attachment(v)>>)

\* WriteEntry that logs a failed SaveDoc and goes on with the next entry
WriteEntry_SkipsFailedEntry(c, ck, err) ==
    /\ pc[c] = "write"
    /\ ck \in todo[c]
    /\ LET id == constructCompositeKey(ck.Namespace, ck.Key) IN
       IF err = NoErr
       THEN /\ docs' = SaveValue(docs, id, batch[c][ck].Value)
            /\ updateSeq' = updateSeq + 1
            /\ todo' = [todo EXCEPT ![c] = @ \ {ck}]
            /\ issued' = issued \cup {[id |-> id, rev |-> docs'[id].rev, call |-> callIdx[c]]}
            /\ history' = [history EXCEPT ![callIdx[c]].written = @ \cup {ck}]
            /\ UNCHANGED pc
       ELSE /\ todo' = [todo EXCEPT ![c] = @ \ {ck}]
            /\ UNCHANGED <<docs, updateSeq, issued, history, pc>>
    /\ UNCHANGED <<disk, nCallers, batch, height, seqRead, callIdx>>

\* one iteration of the range loop (Go visits a map in any order): the entry
\* is saved, or SaveDoc fails and the call returns the error
WriteEntry(c, ck, err) ==
    /\ pc[c] = "write"
    /\ ck \in todo[c]
    /\ LET id == constructCompositeKey(ck.Namespace, ck.Key) IN
       IF err = NoErr
       THEN /\ docs' = SaveValue(docs, id, batch[c][ck].Value)
            /\ updateSeq' = updateSeq + 1
            /\ todo' = [todo EXCEPT ![c] = @ \ {ck}]
            /\ issued' = issued \cup {[id |-> id, rev |-> docs'[id].rev, call |-> callIdx[c]]}
            /\ history' = [history EXCEPT ![callIdx[c]].written = @ \cup {ck}]
            /\ UNCHANGED pc
       ELSE /\ Finish(c, err, "write")
            /\ UNCHANGED <<docs, updateSeq, todo, issued>>
    /\ UNCHANGED <<disk, nCallers, batch, height, seqRead, callIdx>>

\* Commit1 without the flush: the savepoint is fenced on one side only
Commit1_NoFlush(c, answer) ==
    /\ pc[c] = "write"
    /\ todo[c] = {}
    /\ IF answer.err # NoErr \/ answer.Ok # TRUE
       THEN Finish(c, ErrFullCommit, "commit1")
       ELSE /\ pc' = [pc EXCEPT ![c] = "dbinfo"]
            /\ UNCHANGED history
    /\ UNCHANGED <<docs, disk, updateSeq, nCallers, batch, height, todo, seqRead, callIdx, issued>>

\* Commit1 with a failed flush logged and not returned
Commit1_FailureReturnsNil(c, answer) ==
    /\ pc[c] = "write"
    /\ todo[c] = {}
    /\ IF answer.err # NoErr \/ answer.Ok # TRUE
       THEN /\ Finish(c, NoErr, "commit1")
            /\ UNCHANGED disk
       ELSE /\ disk' = docs
            /\ pc' = [pc EXCEPT ![c] = "dbinfo"]
            /\ UNCHANGED history
    /\ UNCHANGED <<docs, updateSeq, nCallers, batch, height, todo, seqRead, callIdx, issued>>

\* recordSavepoint: the first EnsureFullCommit
Commit1(c, answer) ==
    /\ pc[c] = "write"
    /\ todo[c] = {}
    /\ IF answer.err # NoErr \/ answer.Ok # TRUE
       THEN /\ Finish(c, ErrFullCommit, "commit1")
            /\ UNCHANGED disk
       ELSE /\ disk' = docs
            /\ pc' = [pc EXCEPT ![c] = "dbinfo"]
            /\ UNCHANGED history
    /\ UNCHANGED <<docs, updateSeq, nCallers, batch, height, todo, seqRead, callIdx, issued>>

\* recordSavepoint: GetDatabaseInfo
DbInfo(c, err) ==
    /\ pc[c] = "dbinfo"
    /\ IF err # NoErr
       THEN /\ Finish(c, err, "dbinfo")
            /\ UNCHANGED seqRead
       ELSE /\ seqRead' = [seqRead EXCEPT ![c] = updateSeq]
            /\ pc' = [pc EXCEPT ![c] = "savepoint"]
            /\ UNCHANGED history
    /\ UNCHANGED <<docs, disk, updateSeq, nCallers, batch, height, todo, callIdx, issued>>

\* SavepointDoc with TxNum filled from the block number
SavepointDoc_TxFromBlock(h, seq) ==
    [BlockNum |-> h.BlockNum, TxNum |-> h.BlockNum, UpdateSeq |-> seq]

\* the savepoint document recordSavepoint builds from height and dbInfo
SavepointDoc(h, seq) ==
    [BlockNum |-> h.BlockNum, TxNum |-> h.TxNum, UpdateSeq |-> seq]

\* the height a stored savepoint document records
StoredHeight(store) ==
    LET sp == UnmarshalSavepoint(store[savepointDocID].body)
    IN  Height(sp.BlockNum, sp.TxNum)

HeightLeq(h1, h2) ==
    \/ h1.BlockNum < h2.BlockNum
    \/ h1.BlockNum = h2.BlockNum /\ h1.TxNum <= h2.TxNum

\* SaveSavepoint that keeps a stored savepoint of a greater height
SaveSavepoint_Monotone(c, err) ==
    /\ pc[c] = "savepoint"
    /\ IF err # NoErr
       THEN /\ Finish(c, err, "savepoint")
            /\ UNCHANGED <<docs, updateSeq>>
       ELSE /\ IF savepointDocID \in DOMAIN docs
                   /\ ~HeightLeq(StoredHeight(docs), height[c])
               THEN UNCHANGED <<docs, updateSeq>>
               ELSE /\ docs' = SaveDoc(docs, savepointDocID,
                            MarshalSavepoint(SavepointDoc(height[c], seqRead[c])), <<>>)
                    /\ updateSeq' = updateSeq + 1
            /\ pc' = [pc EXCEPT ![c] = "commit2"]
            /\ history' = [history EXCEPT ![callIdx[c]].spSeq = seqRead[c]]
    /\ UNCHANGED <<disk, nCallers, batch, height, todo, seqRead, callIdx, issued>>

\* recordSavepoint: the savepoint document is marshalled and saved
SaveSavepoint(c, err) ==
    /\ pc[c] = "savepoint"
    /\ IF err # NoErr
       THEN /\ Finish(c, err, "savepoint")
            /\ UNCHANGED <<docs, updateSeq>>
       ELSE /\ docs' = SaveDoc(docs, savepointDocID,
                    MarshalSavepoint(SavepointDoc(height[c], seqRead[c])), <<>>)
            /\ updateSeq' = updateSeq + 1
            /\ pc' = [pc EXCEPT ![c] = "commit2"]
            /\ history' = [history EXCEPT ![callIdx[c]].spSeq = seqRead[c]]
    /\ UNCHANGED <<disk, nCallers, batch, height, todo, seqRead, callIdx, issued>>

\* recordSavepoint: the second EnsureFullCommit; then ApplyUpdates returns nil
Commit2(c, answer) ==
    /\ pc[c] = "commit2"
    /\ IF answer.err # NoErr \/ answer.Ok # TRUE
       THEN /\ Finish(c, ErrFullCommit, "commit2")
            /\ UNCHANGED disk
       ELSE /\ disk' = docs
            /\ Finish(c, NoErr, "end")
    /\ UNCHANGED <<docs, updateSeq, nCallers, batch, height, todo, seqRead, callIdx, issued>>

----------------------------------------------------------------------------
(* The store's own steps.                                                  *)

Pending == {id \in DOMAIN docs : id \notin DOMAIN disk \/ disk[id] # docs[id]}

\* the store writes one updated document to stable storage on its own
BackgroundFlush(id) ==
    /\ id \in Pending
    /\ disk' = [i \in DOMAIN disk \cup {id} |-> IF i = id THEN docs[id] ELSE disk[i]]
    /\ UNCHANGED <<docs, updateSeq, nCallers, pc, batch, height, todo, seqRead,
                   callIdx, history, issued>>

\* a write survives when its revision of the document, or a later one, is on
\* stable storage
Survives(w, d) == w.id \in DOMAIN d /\ d[w.id].rev >= w.rev

\* a crash: what is not on stable storage is lost, the calls in flight end
Crash ==
    /\ Pending # {} \/ InFlight # {}
    /\ docs' = disk
    /\ pc' = [c \in Callers |-> "idle"]
    /\ issued' = {w \in issued : Survives(w, disk)}
    /\ history' = [i \in 1..Len(history) |->
            IF history[i].returned = "running"
            THEN [history[i] EXCEPT !.returned = "crashed", !.at = "crashed",
                                    !.crashedAfter = TRUE,
                                    !.post = Snapshot(disk),
                                    !.spAfter = ReadDoc(disk, savepointDocID)]
            ELSE IF i = Len(history) THEN [history[i] EXCEPT !.crashedAfter = TRUE]
            ELSE history[i]]
    /\ UNCHANGED <<disk, updateSeq, nCallers, batch, height, todo, seqRead, callIdx>>

----------------------------------------------------------------------------
(* VersionedDBProvider.GetDBHandle, called from several threads.           *)

Threads == 1..NumThreads

\* "DB", "db", "dB", "x"
DBNames == {<<68, 66>>, <<100, 98>>, <<100, 66>>, <<120>>}

\* strings.ToLower on ASCII text
ToLower(name) ==
    [i \in 1..Len(name) |-> IF name[i] \in 65..90 THEN name[i] + 32 ELSE name[i]]

NilHandle == 0

\* a thread enters GetDBHandle(name)
CallGetDBHandle(t, name) ==
    /\ tpc[t] = "idle"
    /\ tpc' = [tpc EXCEPT ![t] = "lock"]
    /\ tname' = [tname EXCEPT ![t] = name]
    /\ tvdb' = [tvdb EXCEPT ![t] = NilHandle]
    /\ UNCHANGED <<databases, mux, couchDBs, nHandles, returned>>

\* provider.mux.Lock() without waiting for the holder
Lock_NoWait(t) ==
    /\ tpc[t] = "lock"
    /\ mux' = t
    /\ tpc' = [tpc EXCEPT ![t] = "lookup"]
    /\ UNCHANGED <<databases, couchDBs, nHandles, tname, tvdb, returned>>

\* provider.mux.Lock()
Lock(t) ==
    /\ tpc[t] = "lock"
    /\ mux = 0
    /\ mux' = t
    /\ tpc' = [tpc EXCEPT ![t] = "lookup"]
    /\ UNCHANGED <<databases, couchDBs, nHandles, tname, tvdb, returned>>

\* dbName = strings.ToLower(dbName); vdb := provider.databases[dbName]
Lookup(t) ==
    /\ tpc[t] = "lookup"
    /\ LET dbName == ToLower(tname[t]) IN
       /\ tname' = [tname EXCEPT ![t] = dbName]
       /\ IF dbName \in DOMAIN databases
          THEN /\ tvdb' = [tvdb EXCEPT ![t] = databases[dbName]]
               /\ tpc' = [tpc EXCEPT ![t] = "return"]
          ELSE /\ tvdb' = [tvdb EXCEPT ![t] = NilHandle]
               /\ tpc' = [tpc EXCEPT ![t] = "create"]
    /\ UNCHANGED <<databases, mux, couchDBs, nHandles, returned>>

\* vdb, err = newVersionedDB(...): on an error GetDBHandle returns (nil, err),
\* the deferred Unlock runs; else the new handle is put in the map
Create(t, err) ==
    /\ tpc[t] = "create"
    /\ IF err # NoErr
       THEN /\ tpc' = [tpc EXCEPT ![t] = "idle"]
            /\ mux' = IF mux = t THEN 0 ELSE mux
            /\ UNCHANGED <<databases, couchDBs, nHandles, tvdb>>
       ELSE /\ nHandles' = nHandles + 1
            /\ couchDBs' = [couchDBs EXCEPT ![tname[t]] = @ + 1]
            /\ tvdb' = [tvdb EXCEPT ![t] = nHandles + 1]
            /\ databases' = [n \in DOMAIN databases \cup {tname[t]} |->
                    IF n = tname[t] THEN nHandles + 1 ELSE databases[n]]
            /\ tpc' = [tpc EXCEPT ![t] = "return"]
            /\ UNCHANGED mux
    /\ UNCHANGED <<tname, returned>>

\* return vdb, nil; the deferred Unlock runs
Return(t) ==
    /\ tpc[t] = "return"
    /\ returned' = returned \cup {[name |-> tname[t], vdb |-> tvdb[t]]}
    /\ tpc' = [tpc EXCEPT ![t] = "idle"]
    /\ mux' = IF mux = t THEN 0 ELSE mux
    /\ UNCHANGED <<databases, couchDBs, nHandles, tname, tvdb>>

----------------------------------------------------------------------------
(* Range scans: GetStateRangeScanIterator and kvScanner.                   *)

\* the ids of R in ascending byte order
SortIds(R) ==
    LET ranked == {<<Cardinality({e \in R : BytesLess(e, id)}) + 1, id>> : id \in R}
    IN  [p \in 1..Cardinality(R) |-> (CHOOSE r \in ranked : r[1] = p)[2]]

\* ReadDocRange(startKey, endKey, limit, skip): the documents with
\* startKey <= id < endKey in id order, skip of them left out, at most limit
ReadDocRange(store, startKey, endKey, limit, skip) ==
    LET ids == SortIds({id \in DOMAIN store :
                            BytesLeq(startKey, id) /\ BytesLess(id, endKey)})
        n == IF Len(ids) - skip < limit THEN Len(ids) - skip ELSE limit
    IN  [p \in 1..(IF n < 0 THEN 0 ELSE n) |->
            [ID |-> ids[p + skip], Value |-> ReadDoc(store, ids[p + skip]).bytes]]

\* the limit GetStateRangeScanIterator and ExecuteQuery pass to the store
queryLimit == 1000

newKVScanner(namespace, queryResults) ==
    [cursor |-> -1, namespace |-> namespace, results |-> queryResults]

NoScanner == [cursor |-> -2, namespace |-> <<>>, results |-> <<>>]

\* CompositeEndKey without the rewrite for endKey ""
CompositeEndKey_NoSentinel(namespace, endKey) ==
    constructCompositeKey(namespace, endKey)

\* the end key of the scan: for endKey "" the last byte of the composite key,
\* the separator, is set to lastKeyIndicator
CompositeEndKey(namespace, endKey) ==
    LET compositeEndKey == constructCompositeKey(namespace, endKey)
    IN  IF endKey = <<>>
        THEN [compositeEndKey EXCEPT ![Len(compositeEndKey)] = lastKeyIndicator]
        ELSE compositeEndKey

\* GetStateRangeScanIterator that scans from the start of the namespace
GetStateRangeScanIterator_FromNamespaceStart(store, namespace, startKey, endKey, err) ==
    IF err # NoErr THEN [it |-> NoScanner, err |-> err]
    ELSE [it |-> newKVScanner(namespace,
                    ReadDocRange(store, constructCompositeKey(namespace, <<>>),
                                 CompositeEndKey(namespace, endKey), queryLimit, 0)),
          err |-> NoErr]

\* GetStateRangeScanIterator, err being the error of the store's ReadDocRange:
\* (nil, err) when the range read fails, else the scanner over what
\* ReadDocRange returns and a nil error
GetStateRangeScanIterator(store, namespace, startKey, endKey, err) ==
    IF err # NoErr THEN [it |-> NoScanner, err |-> err]
    ELSE [it |-> newKVScanner(namespace,
                    ReadDocRange(store, constructCompositeKey(namespace, startKey),
                                 CompositeEndKey(namespace, endKey), queryLimit, 0)),
          err |-> NoErr]

\* bytes.SplitN(compositeKey, compositeKeySep, 2): one part when there is no
\* separator, else the parts before and after the first one
SplitN2(compositeKey) ==
    IF ~HasByte(compositeKey, compositeKeySep[1]) THEN <<compositeKey>>
    ELSE LET i == CHOOSE i \in 1..Len(compositeKey) :
                    /\ compositeKey[i] = compositeKeySep[1]
                    /\ \A j \in 1..(i - 1) : compositeKey[j] # compositeKeySep[1]
         IN  <<SubSeq(compositeKey, 1, i - 1), SubSeq(compositeKey, i + 1, Len(compositeKey))>>

\* splitCompositeKey: split[0], split[1]; an index out of range (a panic)
\* when there is one part only
splitCompositeKey(compositeKey) ==
    LET split == SplitN2(compositeKey)
    IN  IF Len(split) < 2 THEN [panic |-> TRUE, ns |-> <<>>, key |-> <<>>]
        ELSE [panic |-> FALSE, ns |-> split[1], key |-> split[2]]

\* GetStateRangeScanIterator is called (once): the caller gets the scanner,
\* or no scanner and the error of the range read
OpenRangeScan(namespace, startKey, endKey, err) ==
    /\ scanner = NoScanner
    /\ scanArgs.err = NoErr
    /\ LET r == GetStateRangeScanIterator(docs, namespace, startKey, endKey, err) IN
       /\ scanner' = r.it
       /\ scanArgs' = [namespace |-> namespace, startKey |-> startKey, endKey |-> endKey,
                       err |-> r.err]
    /\ yielded' = <<>>

\* kvScanner.Next: the cursor moves on; (nil, nil) past the results, else the
\* record at the cursor with the scanner's namespace and the key part of its id
KVNext ==
    /\ scanner # NoScanner
    /\ scanner.cursor < Len(scanner.results) + MaxExtraNext
    /\ LET cursor == scanner.cursor + 1 IN
       /\ scanner' = [scanner EXCEPT !.cursor = cursor]
       /\ IF cursor >= Len(scanner.results)
          THEN yielded' = Append(yielded, [out |-> "nil", id |-> <<>>, ns |-> <<>>, key |-> <<>>,
                                           value |-> <<>>])
          ELSE LET selectedKV == scanner.results[cursor + 1]
                   sk == splitCompositeKey(selectedKV.ID)
               IN  yielded' = Append(yielded,
                        [out |-> IF sk.panic THEN "panic" ELSE "kv", id |-> selectedKV.ID,
                         ns |-> scanner.namespace, key |-> sk.key, value |-> selectedKV.Value])
    /\ UNCHANGED scanArgs

----------------------------------------------------------------------------
(* Ad-hoc queries: ExecuteQuery and queryScanner.                          *)

\* the queries passed through to the store: every document, the documents
\* with a JSON body, the documents with an attachment
Queries == {"all", "json", "attachment"}

Matches(doc, query) ==
    \/ query = "all"
    \/ query = "json" /\ doc.atts = <<>>
    \/ query = "attachment" /\ doc.atts # <<>>

\* QueryDocuments(query, limit, skip): the documents the query selects, in
\* id order, skip of them left out, at most limit
QueryDocuments(store, query, limit, skip) ==
    LET ids == SortIds({id \in DOMAIN store : Matches(store[id], query)})
        n == IF Len(ids) - skip < limit THEN Len(ids) - skip ELSE limit
    IN  [p \in 1..(IF n < 0 THEN 0 ELSE n) |->
            [ID |-> ids[p + skip], Value |-> ReadDoc(store, ids[p + skip]).bytes]]

newQueryScanner(queryResults) == [cursor |-> -1, results |-> queryResults]

NoQueryScanner == [cursor |-> -2, results |-> <<>>]

\* ExecuteQuery(query), called once, err being the error of the store's QueryDocuments:
\* (nil, err) when the query fails, else the scanner over what
\* QueryDocuments returns and a nil error
ExecuteQuery(query, err) ==
    /\ qscanner = NoQueryScanner
    /\ queryArgs.err = NoErr
    /\ IF err # NoErr
       THEN qscanner' = NoQueryScanner
       ELSE qscanner' = newQueryScanner(QueryDocuments(docs, query, queryLimit, 0))
    /\ queryArgs' = [query |-> query, err |-> err]
    /\ qyielded' = <<>>
    /\ UNCHANGED latest

\* queryScanner.Next: the cursor moves on; (nil, nil) past the results, else
\* the record at the cursor with the namespace and key split from its id
QueryNext ==
    /\ qscanner # NoQueryScanner
    /\ qscanner.cursor < Len(qscanner.results) + MaxExtraNext
    /\ LET cursor == qscanner.cursor + 1 IN
       /\ qscanner' = [qscanner EXCEPT !.cursor = cursor]
       /\ IF cursor >= Len(qscanner.results)
          THEN qyielded' = Append(qyielded, [out |-> "nil", id |-> <<>>, ns |-> <<>>,
                                             key |-> <<>>, value |-> <<>>])
          ELSE LET selectedResultRecord == qscanner.results[cursor + 1]
                   sk == splitCompositeKey(selectedResultRecord.ID)
               IN  qyielded' = Append(qyielded,
                        [out |-> IF sk.panic THEN "panic" ELSE "record",
                         id |-> selectedResultRecord.ID, ns |-> sk.ns, key |-> sk.key,
                         value |-> selectedResultRecord.Value])
    /\ UNCHANGED <<queryArgs, latest>>

----------------------------------------------------------------------------
(* The ledger manager (package ledgermgmt).  Every function holds lock     *)
(* from entry to return, so each call is one step.  The kvledger provider  *)
(* is a collaborator: it keeps the ids of the ledgers that exist.          *)

LedgerIDs == {"a", "b"}

ErrLedgerAlreadyOpened == "Ledger already opened"
ErrLedgerMgmtNotInitialized == "ledger mgmt should be initialized before using"

\* errors of the kvledger provider
ErrLedgerIDExists == "LedgerID already exists"
ErrNonExistingLedgerID == "LedgerID does not exist"
ProviderErrors == {"error opening ledger"}

\* a Go map: the nil map, or a map with entries m
NilMap == [isNil |-> TRUE, m |-> <<>>]
MakeMap == [isNil |-> FALSE, m |-> <<>>]

\* v, ok := map[k] (reading the nil map finds nothing)
MapHas(map, k) == k \in DOMAIN map.m

\* map[k] = v on a map that is not nil
MapPut(map, k, v) ==
    [map EXCEPT !.m = [i \in DOMAIN map.m \cup {k} |-> IF i = k THEN v ELSE map.m[i]]]

\* delete(map, k) (a no-op on the nil map and for a key without entry)
MapDelete(map, k) ==
    [map EXCEPT !.m = [i \in DOMAIN map.m \ {k} |-> map.m[i]]]

PanicNilMap == "panic: assignment to entry in nil map"
PanicNewProvider == "panic: Error in instantiating ledger provider"

NilProvider == [isNil |-> TRUE, ids |-> {}, closed |-> FALSE]

\* kvledger.NewProvider(): the provider over the ledgers that exist on disk
NewProvider(ids) == [isNil |-> FALSE, ids |-> ids, closed |-> FALSE]

\* the answers of provider.Create(id): ErrLedgerIDExists for a ledger that
\* exists, else the new ledger or another error; what a closed provider
\* answers is not defined by its contract (a ledger or an error)
ProviderCreateAnswers(provider, id) ==
    IF provider.closed THEN {NoErr} \cup ProviderErrors
    ELSE IF id \in provider.ids THEN {ErrLedgerIDExists}
    ELSE {NoErr} \cup ProviderErrors

\* the answers of provider.Open(id): ErrNonExistingLedgerID for a ledger that
\* does not exist, else the ledger or another error
ProviderOpenAnswers(provider, id) ==
    IF provider.closed THEN {NoErr} \cup ProviderErrors
    ELSE IF id \notin provider.ids THEN {ErrNonExistingLedgerID}
    ELSE {NoErr} \cup ProviderErrors

NoLedger == 0

\* the ClosableLedgers returned so far are numbered 1..Len(handles) (the one
\* made right before a panic is returned to nobody)
Handles == 1..Len(handles)

\* wrapLedger(id, l): a new ClosableLedger
wrapLedger(id) == Append(handles, [id |-> id, closed |-> FALSE])

\* the ledger ids with a wrapper that was returned and is not closed
LiveIDs == {handles[h].id : h \in {g \in Handles : ~handles[g].closed}}

\* the record of a call: what it returned, and openedLedgers and the live
\* ledger ids as the call found them
Ret(op, id, l, err) ==
    [op |-> op, id |-> id, l |-> l, err |-> err, ids |-> {},
     before |-> openedLedgers, liveBefore |-> LiveIDs]

\* Initialize: once.Do(initialize); initialize panics when NewProvider fails
Initialize(ids, err) ==
    /\ mgrFailure = "none"
    /\ mgrRet' = Ret("Initialize", "", NoLedger, NoErr)
    /\ IF once
       THEN UNCHANGED <<initialized, once, openedLedgers, ledgerProvider, mgrFailure>>
       ELSE /\ once' = TRUE
            /\ initialized' = TRUE
            /\ openedLedgers' = MakeMap
            /\ IF err # NoErr
               THEN /\ mgrFailure' = PanicNewProvider
                    /\ UNCHANGED ledgerProvider
               ELSE /\ ledgerProvider' = NewProvider(ids)
                    /\ UNCHANGED mgrFailure
    /\ UNCHANGED handles

\* CreateLedger(id): the provider creates the ledger, its wrapper is put in
\* openedLedgers (a write into the nil map panics)
CreateLedger(id, err) ==
    /\ mgrFailure = "none"
    /\ Len(handles) < MaxLedgers
    /\ IF ~initialized
       THEN /\ mgrRet' = Ret("CreateLedger", id, NoLedger, ErrLedgerMgmtNotInitialized)
            /\ UNCHANGED <<openedLedgers, ledgerProvider, handles, mgrFailure>>
       ELSE /\ err \in ProviderCreateAnswers(ledgerProvider, id)
            /\ IF err # NoErr
               THEN /\ mgrRet' = Ret("CreateLedger", id, NoLedger, err)
                    /\ UNCHANGED <<openedLedgers, ledgerProvider, handles, mgrFailure>>
               ELSE /\ ledgerProvider' = [ledgerProvider EXCEPT !.ids = @ \cup {id}]
                    /\ IF openedLedgers.isNil
                       THEN /\ mgrFailure' = PanicNilMap
                            /\ mgrRet' = Ret("CreateLedger", id, NoLedger, PanicNilMap)
                            /\ UNCHANGED <<openedLedgers, handles>>
                       ELSE /\ handles' = wrapLedger(id)
                            /\ openedLedgers' = MapPut(openedLedgers, id, Len(handles) + 1)
                            /\ mgrRet' = Ret("CreateLedger", id, Len(handles) + 1, NoErr)
                            /\ UNCHANGED mgrFailure
    /\ UNCHANGED <<initialized, once>>

\* OpenLedger(id): ErrLedgerAlreadyOpened for an id in openedLedgers, else the
\* provider opens the ledger and its wrapper is put in openedLedgers
OpenLedger(id, err) ==
    /\ mgrFailure = "none"
    /\ Len(handles) < MaxLedgers
    /\ IF ~initialized
       THEN /\ mgrRet' = Ret("OpenLedger", id, NoLedger, ErrLedgerMgmtNotInitialized)
            /\ UNCHANGED <<openedLedgers, ledgerProvider, handles, mgrFailure>>
       ELSE IF MapHas(openedLedgers, id)
       THEN /\ mgrRet' = Ret("OpenLedger", id, NoLedger, ErrLedgerAlreadyOpened)
            /\ UNCHANGED <<openedLedgers, ledgerProvider, handles, mgrFailure>>
       ELSE /\ err \in ProviderOpenAnswers(ledgerProvider, id)
            /\ IF err # NoErr
               THEN /\ mgrRet' = Ret("OpenLedger", id, NoLedger, err)
                    /\ UNCHANGED <<openedLedgers, ledgerProvider, handles, mgrFailure>>
               ELSE /\ UNCHANGED ledgerProvider
                    /\ IF openedLedgers.isNil
                       THEN /\ mgrFailure' = PanicNilMap
                            /\ mgrRet' = Ret("OpenLedger", id, NoLedger, PanicNilMap)
                            /\ UNCHANGED <<openedLedgers, handles>>
                       ELSE /\ handles' = wrapLedger(id)
                            /\ openedLedgers' = MapPut(openedLedgers, id, Len(handles) + 1)
                            /\ mgrRet' = Ret("OpenLedger", id, Len(handles) + 1, NoErr)
                            /\ UNCHANGED mgrFailure
    /\ UNCHANGED <<initialized, once>>

\* GetLedgerIDs: ledgerProvider.List()
GetLedgerIDs(err) ==
    /\ mgrFailure = "none"
    /\ IF ~initialized
       THEN mgrRet' = Ret("GetLedgerIDs", "", NoLedger, ErrLedgerMgmtNotInitialized)
       ELSE /\ err \in {NoErr} \cup ProviderErrors
            /\ mgrRet' = [Ret("GetLedgerIDs", "", NoLedger, err)
                            EXCEPT !.ids = IF err = NoErr THEN ledgerProvider.ids ELSE {}]
    /\ UNCHANGED <<initialized, once, openedLedgers, ledgerProvider, handles, mgrFailure>>

\* closeWithoutLock: the wrapped ledger is closed and the entry of the
\* wrapper's id is deleted from openedLedgers, whichever wrapper it holds
closeWithoutLock(hs, map, h) ==
    [handles |-> [hs EXCEPT ![h].closed = TRUE],
     openedLedgers |-> MapDelete(map, hs[h].id)]

\* Close(): every opened ledger is closed, the provider is closed,
\* openedLedgers is set to nil; initialized stays true
Close ==
    /\ mgrFailure = "none"
    /\ mgrRet' = Ret("Close", "", NoLedger, NoErr)
    /\ IF ~initialized
       THEN UNCHANGED <<openedLedgers, ledgerProvider, handles>>
       ELSE /\ handles' = [h \in Handles |->
                    IF \E id \in DOMAIN openedLedgers.m : openedLedgers.m[id] = h
                    THEN [handles[h] EXCEPT !.closed = TRUE] ELSE handles[h]]
            /\ ledgerProvider' = [ledgerProvider EXCEPT !.closed = TRUE]
            /\ openedLedgers' = NilMap
    /\ UNCHANGED <<initialized, once, mgrFailure>>

\* (l *ClosableLedger).Close(), on any wrapper handed out, closed or not
ClosableLedgerClose(h) ==
    /\ mgrFailure = "none"
    /\ h \in Handles
    /\ LET r == closeWithoutLock(handles, openedLedgers, h) IN
       /\ handles' = r.handles
       /\ openedLedgers' = r.openedLedgers
    /\ mgrRet' = Ret("ClosableLedger.Close", handles[h].id, h, NoErr)
    /\ UNCHANGED <<initialized, once, ledgerProvider, mgrFailure>>

----------------------------------------------------------------------------
(* The specifications.                                                     *)

NoBatch == CHOOSE b \in Batches : TRUE

\* n callers of ApplyUpdates, none in a call
InitCallers(n) ==
    /\ updateSeq = 0
    /\ nCallers = n
    /\ pc = [c \in 1..n |-> "idle"]
    /\ batch = [c \in 1..n |-> NoBatch]
    /\ height = [c \in 1..n |-> Height(0, 0)]
    /\ todo = [c \in 1..n |-> {}]
    /\ seqRead = [c \in 1..n |-> 0]
    /\ callIdx = [c \in 1..n |-> 0]
    /\ history = <<>>
    /\ issued = {}

\* a VersionedDB on a store without documents
InitDB(n) ==
    /\ docs = <<>>
    /\ disk = <<>>
    /\ InitCallers(n)

\* NewVersionedDBProvider: an empty map, the mutex free
InitProvider ==
    /\ databases = <<>>
    /\ mux = 0
    /\ couchDBs = [n \in {ToLower(d) : d \in DBNames} |-> 0]
    /\ nHandles = 0
    /\ tpc = [t \in Threads |-> "idle"]
    /\ tname = [t \in Threads |-> <<>>]
    /\ tvdb = [t \in Threads |-> NilHandle]
    /\ returned = {}

\* no range scan is open
InitScan ==
    /\ scanner = NoScanner
    /\ scanArgs = [namespace |-> <<>>, startKey |-> <<>>, endKey |-> <<>>, err |-> NoErr]
    /\ yielded = <<>>

NoCmp == [a |-> CK(<<>>, <<>>), b |-> CK(<<>>, <<>>), encA |-> <<>>, encB |-> <<>>,
          done |-> FALSE]

\* ledgermgmt before Initialize: the package variables at their zero values
InitMgr ==
    /\ initialized = FALSE
    /\ once = FALSE
    /\ openedLedgers = NilMap
    /\ ledgerProvider = NilProvider
    /\ handles = <<>>
    /\ mgrRet = [op |-> "none", id |-> "", l |-> NoLedger, err |-> NoErr, ids |-> {},
                 before |-> NilMap, liveBefore |-> {}]
    /\ mgrFailure = "none"

NoLatest ==
    [called |-> FALSE, answer |-> [err |-> NoErr, docBytes |-> NilBytes],
     ret |-> [height |-> Height(0, 0), err |-> NoErr], before |-> <<>>]

\* no query is open, GetLatestSavePoint is not called
InitQuery ==
    /\ qscanner = NoQueryScanner
    /\ qyielded = <<>>
    /\ queryArgs = [query |-> "", err |-> NoErr]
    /\ latest = NoLatest

Init == InitDB(1) /\ InitProvider /\ InitScan /\ cmp = NoCmp /\ InitMgr /\ InitQuery

\* ApplyUpdates calls on one VersionedDB, the store flushing and crashing
Next ==
    \/ \E c \in Callers, b \in Batches, h \in Heights :
            Start(c, b, h) /\ OnlyDB
    \/ \E c \in Callers, ck \in DataKeys, e \in {NoErr} \cup WriteErrors :
            WriteEntry(c, ck, e) /\ OnlyDB
    \/ \E c \in Callers, a \in FlushAnswers : Commit1(c, a) /\ OnlyDB
    \/ \E c \in Callers, e \in {NoErr} \cup WriteErrors : DbInfo(c, e) /\ OnlyDB
    \/ \E c \in Callers, e \in {NoErr} \cup WriteErrors :
            SaveSavepoint(c, e) /\ OnlyDB
    \/ \E c \in Callers, a \in FlushAnswers : Commit2(c, a) /\ OnlyDB
    \/ \E id \in DOMAIN docs : BackgroundFlush(id) /\ OnlyDB
    \/ Crash /\ OnlyDB

Spec == Init /\ [][Next]_vars

\* GetDBHandle calls on one provider from NumThreads threads
NextProvider ==
    \/ \E t \in Threads, n \in DBNames : CallGetDBHandle(t, n) /\ OnlyProvider
    \/ \E t \in Threads : Lock(t) /\ OnlyProvider
    \/ \E t \in Threads : Lookup(t) /\ OnlyProvider
    \/ \E t \in Threads, e \in {NoErr} \cup WriteErrors : Create(t, e) /\ OnlyProvider
    \/ \E t \in Threads : Return(t) /\ OnlyProvider

SpecProvider == Init /\ [][NextProvider]_vars

\* the stores range scans are run on: any part of a pool of keys in three
\* namespaces, with or without the savepoint, and one namespace with more
\* documents than queryLimit
ScanPool ==
    {CK(<<1>>, <<>>), CK(<<1>>, <<0>>), CK(<<1>>, <<1>>), CK(<<1>>, <<2>>),
     CK(<<1, 1>>, <<1>>), CK(<<2>>, <<1>>)}

BigPool == {CK(<<3>>, <<a, b>>) : a \in 1..32, b \in 1..32}

ScanNamespaces == {<<1>>, <<1, 1>>, <<2>>, <<3>>}

ScanKeys == {<<>>, <<1>>, <<2>>}

\* end keys: those, and one above every key of the large namespace
ScanEndKeys == ScanKeys \cup {<<33>>}

\* the values of the documents, by the length of their ids
ScanValues == <<ValJSONObj, ValBinA, ValJSONNum>>

\* the store after an ApplyUpdates of the keys cks (and its savepoint)
StoreOf(cks, withSavepoint) ==
    LET ids == {constructCompositeKey(ck.Namespace, ck.Key) : ck \in cks}
        sp == SaveDoc(<<>>, savepointDocID,
                      MarshalSavepoint(SavepointDoc(Height(1, 2), Cardinality(cks))), <<>>)
    IN  [id \in ids \cup (IF withSavepoint THEN {savepointDocID} ELSE {}) |->
            IF id \in ids
            THEN SaveValue(<<>>, id, ScanValues[(Len(id) % 3) + 1])[id]
            ELSE sp[savepointDocID]]

ScanStores ==
    {StoreOf(cks, w) : cks \in SUBSET ScanPool, w \in BOOLEAN}
        \cup {StoreOf(BigPool \cup {CK(<<2>>, <<1>>)}, TRUE)}

InitScanOn ==
    /\ docs \in ScanStores
    /\ disk = docs
    /\ InitCallers(1)
    /\ InitProvider
    /\ InitScan
    /\ cmp = NoCmp
    /\ InitMgr
    /\ InitQuery

\* one range scan on a store, read to its end
NextScan ==
    \/ \E ns \in ScanNamespaces, startKey \in ScanKeys, endKey \in ScanEndKeys,
          e \in {NoErr} \cup WriteErrors :
            OpenRangeScan(ns, startKey, endKey, e) /\ OnlyScan
    \/ KVNext /\ OnlyScan

SpecScan == InitScanOn /\ [][NextScan]_vars

\* byte strings of at most n bytes of B
BytesUpTo(B, n) == UNION {[1..k -> B] : k \in 0..n}

\* namespaces (no separator byte) and keys (any byte)
CmpPairs == {CK(ns, key) : ns \in BytesUpTo({1, 2}, MaxLen), key \in BytesUpTo({0, 1, 2}, MaxLen)}

InitCmp ==
    /\ InitDB(1)
    /\ InitProvider
    /\ InitScan
    /\ InitMgr
    /\ InitQuery
    /\ \E a \in CmpPairs, b \in CmpPairs :
            cmp = [a |-> a, b |-> b, encA |-> <<>>, encB |-> <<>>, done |-> FALSE]

\* the composite keys of the two pairs are constructed
Encode ==
    /\ ~cmp.done
    /\ cmp' = [cmp EXCEPT !.encA = constructCompositeKey(cmp.a.Namespace, cmp.a.Key),
                          !.encB = constructCompositeKey(cmp.b.Namespace, cmp.b.Key),
                          !.done = TRUE]

NextCmp == Encode /\ OnlyCmp

SpecCmp == InitCmp /\ [][NextCmp]_vars

\* two callers of ApplyUpdates on one VersionedDB: nothing in ApplyUpdates
\* keeps the second call from starting while the first is in flight
InitConc ==
    InitDB(2) /\ InitProvider /\ InitScan /\ cmp = NoCmp /\ InitMgr /\ InitQuery

\* each caller makes one call
StartConcurrent(c, b, h) == callIdx[c] = 0 /\ Start(c, b, h)

NextConc ==
    \/ \E c \in Callers, b \in Batches, h \in Heights :
            StartConcurrent(c, b, h) /\ OnlyDB
    \/ \E c \in Callers, ck \in DataKeys, e \in {NoErr} \cup WriteErrors :
            WriteEntry(c, ck, e) /\ OnlyDB
    \/ \E c \in Callers, a \in FlushAnswers : Commit1(c, a) /\ OnlyDB
    \/ \E c \in Callers, e \in {NoErr} \cup WriteErrors : DbInfo(c, e) /\ OnlyDB
    \/ \E c \in Callers, e \in {NoErr} \cup WriteErrors :
            SaveSavepoint(c, e) /\ OnlyDB
    \/ \E c \in Callers, a \in FlushAnswers : Commit2(c, a) /\ OnlyDB
    \/ \E id \in DOMAIN docs : BackgroundFlush(id) /\ OnlyDB
    \/ Crash /\ OnlyDB

SpecConc == InitConc /\ [][NextConc]_vars

\* the stores queries are run on: any part of the pool of keys, with or
\* without the savepoint
QueryStores == {StoreOf(cks, w) : cks \in SUBSET ScanPool, w \in BOOLEAN}

InitQueryOn ==
    /\ docs \in QueryStores
    /\ disk = docs
    /\ InitCallers(1)
    /\ InitProvider
    /\ InitScan
    /\ cmp = NoCmp
    /\ InitMgr
    /\ InitQuery

\* one range scan and one query on a store, each read to its end
NextQuery ==
    \/ \E ns \in ScanNamespaces, startKey \in ScanKeys, endKey \in ScanEndKeys,
          e \in {NoErr} \cup WriteErrors :
            /\ OpenRangeScan(ns, startKey, endKey, e)
            /\ UNCHANGED <<dbVars, provVars, cmp, mgrVars, queryVars>>
    \/ KVNext /\ UNCHANGED <<dbVars, provVars, cmp, mgrVars, queryVars>>
    \/ \E q \in Queries, e \in {NoErr} \cup WriteErrors : ExecuteQuery(q, e) /\ OnlyQuery
    \/ QueryNext /\ OnlyQuery

SpecQuery == InitQueryOn /\ [][NextQuery]_vars

\* the places at which "statedb_savepoint" is split into namespace and key:
\* ("", "statedb_savepoint"), ("statedb", "_savepoint"),
\* ("statedb_", "savepoint"), ("statedb_savepoint", "")
SplitPlaces == {0, 7, 8, Len(savepointDocID)}

\* the composite keys closest to savepointDocID
ReservedKeys ==
    {CK(SubSeq(savepointDocID, 1, n), SubSeq(savepointDocID, n + 1, Len(savepointDocID))) :
        n \in SplitPlaces}

\* batches of one entry under such a key
ReservedBatches == {ck :> VV(ValJSONObj) : ck \in ReservedKeys}

\* ApplyUpdates calls with these batches
NextReserved ==
    \/ \E c \in Callers, b \in ReservedBatches, h \in {Height(1, 2)} :
            Start(c, b, h) /\ OnlyDB
    \/ \E c \in Callers, ck \in ReservedKeys, e \in {NoErr} \cup WriteErrors :
            WriteEntry(c, ck, e) /\ OnlyDB
    \/ \E c \in Callers, a \in FlushAnswers : Commit1(c, a) /\ OnlyDB
    \/ \E c \in Callers, e \in {NoErr} \cup WriteErrors : DbInfo(c, e) /\ OnlyDB
    \/ \E c \in Callers, e \in {NoErr} \cup WriteErrors :
            SaveSavepoint(c, e) /\ OnlyDB
    \/ \E c \in Callers, a \in FlushAnswers : Commit2(c, a) /\ OnlyDB
    \/ \E id \in DOMAIN docs : BackgroundFlush(id) /\ OnlyDB
    \/ Crash /\ OnlyDB

SpecReserved == Init /\ [][NextReserved]_vars

\* the documents that can be found under savepointDocID: the savepoints
\* recordSavepoint writes, and what another writer or a damaged store leaves
\* there ("{}", a JSON number, binary attachments)
SavepointDocs ==
    {SaveDoc(<<>>, savepointDocID, MarshalSavepoint(SavepointDoc(h, 3)), <<>>) : h \in Heights}
        \cup {SaveDoc(<<>>, savepointDocID, b, <<>>) : b \in {JSONEmptyObject, ValJSONNum}}
        \cup {SaveDoc(<<>>, savepointDocID, <<>>, <<Attachment(b)>>) : b \in {ValBinA, JSONNull}}

\* the stores GetLatestSavePoint is called on
SavepointStores ==
    {StoreOf(cks, FALSE) : cks \in SUBSET ScanPool}
        \cup {StoreOf(cks, FALSE) @@ sp : cks \in SUBSET ScanPool, sp \in SavepointDocs}

InitSavepointOn ==
    /\ docs \in SavepointStores
    /\ disk = docs
    /\ InitCallers(1)
    /\ InitProvider
    /\ InitScan
    /\ cmp = NoCmp
    /\ InitMgr
    /\ InitQuery

\* GetLatestSavePoint is called; the store answers the read or fails
CallGetLatestSavePoint(answer) ==
    /\ ~latest.called
    /\ answer \in ReadDocAnswers(docs, savepointDocID)
    /\ latest' = [called |-> TRUE, answer |-> answer, ret |-> GetLatestSavePoint(answer),
                  before |-> docs]
    /\ UNCHANGED <<dbVars, provVars, scanVars, cmp, mgrVars, qscanner, qyielded, queryArgs>>

NextSavepoint ==
    \E a \in ReadDocAnswers(docs, savepointDocID) : CallGetLatestSavePoint(a)

SpecSavepoint == InitSavepointOn /\ [][NextSavepoint]_vars

\* calls of the ledger manager's functions and of the handles' Close
NextMgr ==
    \/ \E ids \in SUBSET LedgerIDs, e \in {NoErr} \cup ProviderErrors :
            Initialize(ids, e) /\ OnlyMgr
    \/ \E id \in LedgerIDs, e \in {NoErr, ErrLedgerIDExists} \cup ProviderErrors :
            CreateLedger(id, e) /\ OnlyMgr
    \/ \E id \in LedgerIDs, e \in {NoErr, ErrNonExistingLedgerID} \cup ProviderErrors :
            OpenLedger(id, e) /\ OnlyMgr
    \/ \E e \in {NoErr} \cup ProviderErrors : GetLedgerIDs(e) /\ OnlyMgr
    \/ Close /\ OnlyMgr
    \/ \E h \in Handles : ClosableLedgerClose(h) /\ OnlyMgr

SpecMgr == Init /\ [][NextMgr]_vars

----------------------------------------------------------------------------
(* The claims about ApplyUpdates and the reads, under Spec (one call in    *)
(* flight at a time).                                                      *)

Calls == 1..Len(history)

\* the store answers the read (no transport error)
Answered(store, id) == {a \in ReadDocAnswers(store, id) : a.err = NoErr}

\* the savepoint document in store is the one call i saved
SavedBy(i, store) ==
    /\ savepointDocID \in DOMAIN store
    /\ history[i].spSeq # -1
    /\ store[savepointDocID].body
            = MarshalSavepoint(SavepointDoc(history[i].height, history[i].spSeq))

\* C1: at every point (a crash can happen at any), if the savepoint document
\* of the call for height H is on stable storage, then every data document
\* write issued by that call and by every earlier call is on stable storage
\* too (writes an earlier crash lost are not writes this crash can lose)
C1_DurableSavepointCoversWrites ==
    \A i \in Calls :
        SavedBy(i, disk) =>
            \A w \in issued : w.call <= i => Survives(w, disk)

\* the second call has its savepoint on stable storage before its second
\* flush, the writes of both calls are issued, a later write is pending
C1_Witness ==
    \E c \in Callers :
        /\ pc[c] = "commit2"
        /\ callIdx[c] = 2
        /\ SavedBy(2, disk)
        /\ \E w \in issued : w.call = 1
        /\ \E w \in issued : w.call = 2

\* C2: after an ApplyUpdates(batch, H) that returned nil, no call in flight,
\* GetLatestSavePoint returns (H, nil); before any ApplyUpdates it returns
\* ((0,0), nil)
C2_SavepointAfterSuccess ==
    \A a \in Answered(docs, savepointDocID) :
        /\ history = <<>> =>
                GetLatestSavePoint(a) = [height |-> Height(0, 0), err |-> NoErr]
        /\ (history # <<>> /\ InFlight = {} /\ history[Len(history)].returned = NoErr) =>
                GetLatestSavePoint(a) = [height |-> history[Len(history)].height, err |-> NoErr]

C2_Witness ==
    /\ Len(history) = 2
    /\ InFlight = {}
    /\ history[1].returned = NoErr
    /\ history[2].returned = NoErr
    /\ history[1].height # history[2].height

\* C3 as claimed: when either EnsureFullCommit of the call fails, the call
\* returns an error and the savepoint document is as it was before the call
C3_FlushFailureKeepsSavepoint ==
    \A i \in Calls :
        history[i].at \in {"commit1", "commit2"} =>
            /\ history[i].returned = ErrFullCommit
            /\ history[i].spAfter = history[i].spBefore

\* C3 amended: when either EnsureFullCommit fails the call returns an error;
\* after a failure of the first the savepoint document is as it was before
\* the call, after a failure of the second it is the one the call saved
C3_FlushFailureAmended ==
    \A i \in Calls :
        /\ history[i].at = "commit1" =>
                /\ history[i].returned = ErrFullCommit
                /\ history[i].spAfter = history[i].spBefore
        /\ history[i].at = "commit2" =>
                /\ history[i].returned = ErrFullCommit
                /\ history[i].spAfter = SomeBytes(MarshalSavepoint(
                        SavepointDoc(history[i].height, history[i].spSeq)))

C3_Witness ==
    /\ Len(history) = 2
    /\ history[1].at = "commit2"
    /\ history[2].at = "commit1"
    /\ history[2].spBefore # NilBytes

\* C5: a value written by an ApplyUpdates that returned nil is the value
\* GetState returns for its key, as long as no later call wrote the key,
\* for JSON values (document body) and binary values (attachment)
C5_RoundTrip ==
    \A i \in Calls :
        history[i].returned = NoErr =>
            \A ck \in DOMAIN history[i].batch :
                (\A j \in Calls : j > i => ck \notin history[j].written) =>
                    \A a \in Answered(docs, constructCompositeKey(ck.Namespace, ck.Key)) :
                        LET r == GetState(ck.Namespace, ck.Key, a) IN
                        /\ r.err = NoErr
                        /\ ~r.vv.isNil
                        /\ r.vv.Value = history[i].batch[ck].Value

\* a JSON and a binary value were written by the first call, the second call
\* has overwritten one of its keys
C5_Witness ==
    /\ Len(history) = 2
    /\ history[1].returned = NoErr
    /\ \E ck \in DOMAIN history[1].batch : IsJSON(history[1].batch[ck].Value)
    /\ \E ck \in DOMAIN history[1].batch :
            /\ ~IsJSON(history[1].batch[ck].Value)
            /\ ck \notin history[2].written
    /\ history[2].written # {}

\* what every key reads after batch b is applied once to a state that reads snap
Overlay(snap, b) ==
    [ck \in DataKeys |-> IF ck \in DOMAIN b THEN SomeBytes(b[ck].Value) ELSE snap[ck]]

\* C6: when a batch is applied at H1 (returning nil, or an error part-way)
\* and then again at H2 # H1 returning nil, every key reads as after one
\* application, and GetLatestSavePoint returns H2
C6_ReapplyIdempotent ==
    \A i \in Calls : i < Len(history) =>
        LET f == history[i]
            g == history[i + 1]
        IN  ( /\ f.batch = g.batch
              /\ f.height # g.height
              /\ f.returned \notin {"running", "crashed"}
              /\ ~f.crashedAfter
              /\ g.returned = NoErr ) =>
                /\ g.post = Overlay(f.pre, f.batch)
                /\ f.returned = NoErr => g.post = f.post
                /\ GetLatestSavePoint([err |-> NoErr, docBytes |-> g.spAfter])
                        = [height |-> g.height, err |-> NoErr]

\* the batch failed part-way with one entry written, and was retried
C6_Witness ==
    /\ Len(history) = 2
    /\ history[1].batch = history[2].batch
    /\ history[1].height # history[2].height
    /\ history[1].at = "write"
    /\ history[1].written # {}
    /\ ~history[1].crashedAfter
    /\ history[2].returned = NoErr

\* every call so far returned nil and none is in flight
AllSucceeded ==
    /\ history # <<>>
    /\ InFlight = {}
    /\ \A i \in Calls : history[i].returned = NoErr

\* C9 as claimed: after any sequence of successful calls the savepoint
\* record holds the highest of their heights
C9_SavepointIsHighest ==
    AllSucceeded =>
        /\ savepointDocID \in DOMAIN docs
        /\ \A i \in Calls : HeightLeq(history[i].height, StoredHeight(docs))

\* C9 amended: after any sequence of successful calls the savepoint record,
\* as stored and as on stable storage, holds the height of the last call
C9_SavepointIsLatest ==
    AllSucceeded =>
        /\ savepointDocID \in DOMAIN docs
        /\ savepointDocID \in DOMAIN disk
        /\ StoredHeight(docs) = history[Len(history)].height
        /\ StoredHeight(disk) = history[Len(history)].height

\* the second successful call passed a lower height than the first
C9_Witness ==
    /\ AllSucceeded
    /\ Len(history) = 2
    /\ ~HeightLeq(history[1].height, history[2].height)

\* the keys GetState is asked for: those of the inputs and one never written
ProbeKeys == DataKeys \cup {CK(NsB, KeyX)}

\* C10: GetState of a key without a document returns (nil, nil); when the
\* point read fails it returns (nil, that error)
C10_AbsentIsNotError ==
    \A ck \in ProbeKeys :
        LET id == constructCompositeKey(ck.Namespace, ck.Key) IN
        \A a \in ReadDocAnswers(docs, id) :
            LET r == GetState(ck.Namespace, ck.Key, a) IN
            /\ (id \notin DOMAIN docs /\ a.err = NoErr) => r = [vv |-> Absent, err |-> NoErr]
            /\ a.err # NoErr => r = [vv |-> Absent, err |-> a.err]

\* some keys have documents, and a key of the inputs has none
C10_Witness ==
    /\ \E ck \in DataKeys : constructCompositeKey(ck.Namespace, ck.Key) \in DOMAIN docs
    /\ \E ck \in DataKeys : constructCompositeKey(ck.Namespace, ck.Key) \notin DOMAIN docs

----------------------------------------------------------------------------
(* The claim about GetDBHandle, under SpecProvider.                        *)

\* C4: in every interleaving of GetDBHandle calls, the database of a
\* lowercased name is created at most once, and the calls that returned
\* without error for names equal after lowercasing returned the same handle
C4_OneHandlePerName ==
    /\ \A n \in DOMAIN couchDBs : couchDBs[n] <= 1
    /\ \A r1, r2 \in returned : r1.name = r2.name => r1.vdb = r2.vdb
    /\ \A r \in returned : r.vdb # NilHandle /\ r.name = ToLower(r.name)

\* two threads are in GetDBHandle for names that differ in case only, one
\* holds the mutex after creating the database, the other has yet to lock
C4_Witness ==
    \E t1, t2 \in Threads :
        /\ t1 # t2
        /\ tpc[t1] = "return"
        /\ tpc[t2] = "lock"
        /\ tname[t2] # tname[t1]
        /\ ToLower(tname[t2]) = tname[t1]
        /\ couchDBs[tname[t1]] = 1
        /\ \E r \in returned : r.name = tname[t1]

----------------------------------------------------------------------------
(* The claims about range scans, under SpecScan.                           *)

Exhausted == scanner # NoScanner /\ scanner.cursor >= Len(scanner.results)

\* the records Next has returned
YieldedKVs == {i \in 1..Len(yielded) : yielded[i].out # "nil"}
YieldedIds == {yielded[i].id : i \in YieldedKVs}

\* the documents of the scanned namespace with key >= startKey
FromStart ==
    {id \in DOMAIN docs :
        \E key \in {SubSeq(id, Len(scanArgs.namespace) + 2, Len(id))} :
            /\ id = constructCompositeKey(scanArgs.namespace, key)
            /\ BytesLeq(scanArgs.startKey, key)}

\* every record Next returned is a document of the scanned namespace, under
\* the key it is stored at, and not the savepoint document
YieldedAreOfNamespace ==
    \A i \in YieldedKVs :
        /\ yielded[i].out = "kv"
        /\ yielded[i].id \in DOMAIN docs
        /\ yielded[i].id # savepointDocID
        /\ yielded[i].ns = scanArgs.namespace
        /\ yielded[i].id = constructCompositeKey(scanArgs.namespace, yielded[i].key)

\* the documents Next has yet to return
Ahead == {scanner.results[p].ID : p \in (scanner.cursor + 2)..Len(scanner.results)}

\* the results of the scan are in ascending order of their ids
ResultsAscending ==
    \A p \in 1..(Len(scanner.results) - 1) :
        BytesLess(scanner.results[p].ID, scanner.results[p + 1].ID)

\* C7 as claimed: for any contents, the scan with endKey "" yields every key
\* of the namespace from startKey on (each is returned already or still to
\* come), no key of another namespace and not the savepoint document
C7_OpenEndedScanYieldsAll ==
    (scanArgs.endKey = <<>> /\ scanner # NoScanner) =>
        /\ YieldedAreOfNamespace
        /\ YieldedIds \cup Ahead = FromStart
        /\ Exhausted => YieldedIds = FromStart

\* C7 amended: the scan with endKey "" yields every key of the namespace
\* from startKey on when there are at most queryLimit (1000) of them, and
\* the queryLimit lowest of them otherwise; no key of another namespace and
\* not the savepoint document
C7_OpenEndedScanYieldsUpToLimit ==
    (scanArgs.endKey = <<>> /\ scanner # NoScanner) =>
        LET all == YieldedIds \cup Ahead IN
        /\ YieldedAreOfNamespace
        /\ IF Cardinality(FromStart) <= queryLimit
           THEN all = FromStart
           ELSE /\ all \subseteq FromStart
                /\ Cardinality(all) = queryLimit
                /\ ResultsAscending
                /\ \A id \in FromStart \ all :
                        BytesLess(scanner.results[Len(scanner.results)].ID, id)
        /\ Exhausted => YieldedIds = all

\* a scan with endKey "" of a namespace that is a prefix of another one has
\* ended; the store holds keys before startKey, the other namespace and the
\* savepoint
C7_Witness ==
    /\ scanArgs.endKey = <<>>
    /\ Exhausted
    /\ scanArgs.namespace = <<1>>
    /\ scanArgs.startKey = <<1>>
    /\ Cardinality(YieldedIds) = 2
    /\ savepointDocID \in DOMAIN docs
    /\ constructCompositeKey(<<1, 1>>, <<1>>) \in DOMAIN docs
    /\ constructCompositeKey(<<1>>, <<0>>) \in DOMAIN docs
    /\ constructCompositeKey(<<2>>, <<1>>) \in DOMAIN docs

\* the documents of the scanned namespace with startKey <= key < endKey
InRange ==
    {id \in FromStart :
        BytesLess(SubSeq(id, Len(scanArgs.namespace) + 2, Len(id)), scanArgs.endKey)}

\* C17: the scan with a non-empty endKey yields, in ascending key order, the
\* keys k of the namespace with startKey <= k < endKey when there are at most
\* queryLimit (1000) of them and the first queryLimit of them otherwise;
\* every record carries the scanned namespace and the part of its document
\* id after the first separator byte as key
C17_BoundedScan ==
    (scanArgs.endKey # <<>> /\ scanner # NoScanner) =>
        LET all == YieldedIds \cup Ahead IN
        /\ YieldedAreOfNamespace
        /\ ResultsAscending
        /\ \A i \in 1..Len(yielded) :
                yielded[i].out # "nil" =>
                    /\ yielded[i].id = scanner.results[i].ID
                    /\ yielded[i].key = SplitN2(yielded[i].id)[2]
        /\ IF Cardinality(InRange) <= queryLimit
           THEN all = InRange
           ELSE /\ all \subseteq InRange
                /\ Cardinality(all) = queryLimit
                /\ \A id \in InRange \ all :
                        BytesLess(scanner.results[Len(scanner.results)].ID, id)
        /\ Exhausted => YieldedIds = all

\* a scan from <<1>> to <<2>> has ended after one key; the store holds a
\* key below startKey, the key endKey itself and a key of a namespace that
\* has the scanned one as a prefix
C17_Witness ==
    /\ scanArgs = [namespace |-> <<1>>, startKey |-> <<1>>, endKey |-> <<2>>, err |-> NoErr]
    /\ Exhausted
    /\ YieldedIds = {constructCompositeKey(<<1>>, <<1>>)}
    /\ constructCompositeKey(<<1>>, <<0>>) \in DOMAIN docs
    /\ constructCompositeKey(<<1>>, <<2>>) \in DOMAIN docs
    /\ constructCompositeKey(<<1, 1>>, <<1>>) \in DOMAIN docs

----------------------------------------------------------------------------
(* The claims about the scanners' Next, under SpecQuery.                   *)

\* the calls of Next so far returned the results in order, each once, as
\* records of the kind rec, and (nil, nil) after the last
NextInOrder(sc, out, rec) ==
    /\ Len(out) = sc.cursor + 1
    /\ \A i \in 1..Len(out) :
        IF i <= Len(sc.results)
        THEN /\ out[i].out = rec
             /\ out[i].id = sc.results[i].ID
             /\ out[i].value = sc.results[i].Value
        ELSE out[i].out = "nil"

KVNextInOrder == scanner # NoScanner => NextInOrder(scanner, yielded, "kv")

QueryNextInOrder == qscanner # NoQueryScanner => NextInOrder(qscanner, qyielded, "record")

\* C15 as claimed: for a kvScanner and for a queryScanner over n results, the
\* first n calls of Next return the results in order, each once, every
\* later call returns (nil, nil)
C15_NextInOrder == KVNextInOrder /\ QueryNextInOrder

\* C18 as claimed: for every document in the result set of a query, the
\* savepoint document included, queryScanner.Next splits the id and returns
\* a record without a runtime failure
C18_QueryNextNeverFails ==
    \A i \in 1..Len(qyielded) : qyielded[i].out # "panic"

----------------------------------------------------------------------------
(* The claim about GetLatestSavePoint, under SpecSavepoint.                *)

\* the savepoint document exists and json.Unmarshal fails on it
Undecodable(store) ==
    /\ savepointDocID \in DOMAIN store
    /\ UnmarshalSavepoint(ReadDoc(store, savepointDocID).bytes).err # NoErr

\* C16: GetLatestSavePoint returns height (0,0) with the error of the read
\* when reading the savepoint document fails, height (0,0) with a non-nil
\* error when the document exists and cannot be decoded, a height other than
\* (0,0) only with a nil error, and leaves the store as it was
C16_SavepointReadErrors ==
    latest.called =>
        /\ latest.answer.err # NoErr =>
                latest.ret = [height |-> Height(0, 0), err |-> latest.answer.err]
        /\ (latest.answer.err = NoErr /\ Undecodable(latest.before)) =>
                /\ latest.ret.height = Height(0, 0)
                /\ latest.ret.err # NoErr
        /\ latest.ret.height # Height(0, 0) => latest.ret.err = NoErr
        /\ docs = latest.before
        /\ disk = latest.before

\* the savepoint document is a binary attachment; the read succeeded and
\* GetLatestSavePoint returned (0,0) with the error of json.Unmarshal
C16_Witness ==
    /\ latest.called
    /\ latest.answer.err = NoErr
    /\ savepointDocID \in DOMAIN docs
    /\ docs[savepointDocID].atts # <<>>
    /\ latest.ret = [height |-> Height(0, 0), err |-> ErrUnmarshal]
    /\ \E ck \in ScanPool : constructCompositeKey(ck.Namespace, ck.Key) \in DOMAIN docs

----------------------------------------------------------------------------
(* The claim about composite keys, under SpecCmp.                          *)

\* (ns1, k1) before (ns2, k2): namespaces first, keys second
PairLess(a, b) ==
    \/ BytesLess(a.Namespace, b.Namespace)
    \/ a.Namespace = b.Namespace /\ BytesLess(a.Key, b.Key)

\* C8: for namespaces without the separator byte, the composite key of one
\* pair is byte-wise less than that of another exactly when the pair is less
\* in the order of namespaces first and keys second
C8_CompositeKeyOrder ==
    cmp.done =>
        (BytesLess(cmp.encA, cmp.encB) <=> PairLess(cmp.a, cmp.b))

\* a namespace that is a proper prefix of the other, with the greater key
C8_Witness ==
    /\ cmp.done
    /\ cmp.a.Namespace = <<1>>
    /\ cmp.b.Namespace = <<1, 1>>
    /\ cmp.a.Key = <<2>>
    /\ cmp.b.Key = <<0>>
    /\ BytesLess(cmp.encA, cmp.encB)

----------------------------------------------------------------------------
(* More claims about ApplyUpdates, under Spec.                             *)

\* the call returned an error
Failed(i) == history[i].returned \notin {NoErr, "running", "crashed"}

\* C13: a call of ApplyUpdates returns nil only after every entry and the
\* savepoint were written; a call that returned an error has stopped at the
\* step that failed: the entries it wrote read as it wrote them (no
\* rollback); when the failing step is the write of an entry that entry and
\* the entries not yet visited read as before the call, and the savepoint
\* document is not written by the call and reads as before the call; a later
\* step fails only after every entry was written
C13_FailureStopsTheCall ==
    \A i \in Calls :
        LET f == history[i] IN
        /\ f.returned = NoErr => (f.written = DOMAIN f.batch /\ f.spSeq # -1)
        /\ Failed(i) =>
            /\ \A c \in Callers : callIdx[c] = i => pc[c] = "idle"
            /\ f.at \in {"write", "commit1", "dbinfo", "savepoint", "commit2"}
            /\ \A ck \in f.written : f.post[ck] = SomeBytes(f.batch[ck].Value)
            /\ \A ck \in DataKeys \ f.written : f.post[ck] = f.pre[ck]
            /\ f.at = "write" =>
                    /\ f.written # DOMAIN f.batch
                    /\ f.spSeq = -1
                    /\ f.spAfter = f.spBefore
            /\ f.at # "write" => f.written = DOMAIN f.batch
            /\ f.at \in {"commit1", "dbinfo", "savepoint"} => f.spAfter = f.spBefore

\* after a call that saved a savepoint, a call failed at the write of its
\* second entry
C13_Witness ==
    /\ Len(history) = 2
    /\ history[1].returned = NoErr
    /\ history[2].at = "write"
    /\ Failed(2)
    /\ history[2].written # {}
    /\ history[2].spBefore # NilBytes

----------------------------------------------------------------------------
(* The claim about concurrent ApplyUpdates calls, under SpecConc.          *)

\* two calls were made and both returned nil
BothSucceeded ==
    /\ Len(history) = 2
    /\ history[1].returned = NoErr
    /\ history[2].returned = NoErr

\* the call that issued the last write of the document id
LastWriter(id) ==
    (CHOOSE w \in issued : w.id = id /\ \A v \in issued : v.id = id => v.rev <= w.rev).call

\* the calls whose savepoint document is the stored one
SavepointOf(store) == {i \in Calls : SavedBy(i, store)}

\* C14: ApplyUpdates takes no lock, a second call can be in flight with the
\* first; when two such calls both returned nil, every key holds the value
\* of the call that wrote it last and the savepoint records the height of
\* one of the calls, which need not be that call (the witness)
C14_ConcurrentCallsInterleave ==
    BothSucceeded =>
        /\ \A ck \in DataKeys :
            LET id == constructCompositeKey(ck.Namespace, ck.Key) IN
            (\E w \in issued : w.id = id) =>
                ReadDoc(docs, id) = SomeBytes(history[LastWriter(id)].batch[ck].Value)
        /\ SavepointOf(docs) # {}
        /\ StoredHeight(docs) \in {history[1].height, history[2].height}

\* both calls returned nil, a key written by both holds the value of one
\* call and the savepoint records the height of the other
C14_Witness ==
    /\ BothSucceeded
    /\ history[1].height # history[2].height
    /\ \E ck \in DOMAIN history[1].batch \cap DOMAIN history[2].batch :
        \E i, j \in Calls :
            /\ i # j
            /\ history[1].batch[ck].Value # history[2].batch[ck].Value
            /\ ReadDoc(docs, constructCompositeKey(ck.Namespace, ck.Key))
                    = SomeBytes(history[i].batch[ck].Value)
            /\ StoredHeight(docs) = history[j].height

----------------------------------------------------------------------------
(* The claim about the reserved identifier, under SpecReserved.            *)

\* C20: the id of every data document ApplyUpdates writes contains the
\* separator byte and so differs from savepointDocID, also for namespaces
\* and keys that concatenate to "statedb_savepoint"; the savepoint document
\* exists only once recordSavepoint has saved it and is always a savepoint
\* that recordSavepoint saved, never the value of a batch entry
C20_SavepointIdReserved ==
    /\ \A ck \in ReservedKeys :
            LET id == constructCompositeKey(ck.Namespace, ck.Key) IN
            HasByte(id, compositeKeySep[1]) /\ id # savepointDocID
    /\ \A w \in issued : HasByte(w.id, compositeKeySep[1]) /\ w.id # savepointDocID
    /\ savepointDocID \in DOMAIN docs =>
            /\ \E i \in Calls : SavedBy(i, docs)
            /\ docs[savepointDocID].atts = <<>>
    /\ (\A i \in Calls : history[i].spSeq = -1) => savepointDocID \notin DOMAIN docs

\* after a call that saved the savepoint, a call has written the entry
\* ("statedb", "_savepoint") and returned nil
C20_Witness ==
    /\ Len(history) = 2
    /\ history[1].returned = NoErr
    /\ history[2].returned = NoErr
    /\ DOMAIN history[2].batch = {CK(SubSeq(savepointDocID, 1, 7), SubSeq(savepointDocID, 8, 17))}
    /\ \E w \in issued : w.call = 2
    /\ savepointDocID \in DOMAIN docs

----------------------------------------------------------------------------
(* The claims about the ledger manager, under SpecMgr.                     *)

\* the wrappers that were returned and are not closed, by ledger id
LiveHandles(id) == {h \in Handles : handles[h].id = id /\ ~handles[h].closed}

\* C11 as claimed: after any sequence of Initialize, CreateLedger, OpenLedger
\* and handle Close calls (a handle may be closed more than once) there is at
\* most one returned and not closed handle per ledger id, and an OpenLedger
\* for an id that had such a handle returned ErrLedgerAlreadyOpened
C11_OneLiveHandlePerId ==
    /\ \A id \in LedgerIDs : Cardinality(LiveHandles(id)) <= 1
    /\ (mgrRet.op = "OpenLedger" /\ mgrRet.id \in mgrRet.liveBefore) =>
            mgrRet.err = ErrLedgerAlreadyOpened

\* C12 as claimed: CreateLedger(id) with id in openedLedgers returns
\* ErrLedgerAlreadyOpened and leaves the handle registered for id unchanged
C12_CreateWhileOpened ==
    (mgrRet.op = "CreateLedger" /\ MapHas(mgrRet.before, mgrRet.id)) =>
        /\ mgrRet.err = ErrLedgerAlreadyOpened
        /\ MapHas(openedLedgers, mgrRet.id)
        /\ openedLedgers.m[mgrRet.id] = mgrRet.before.m[mgrRet.id]

\* C19 as claimed: no sequence of Initialize, CreateLedger, OpenLedger,
\* GetLedgerIDs, Close and handle Close calls ends in a runtime failure; a
\* CreateLedger or OpenLedger after Close() returns a ledger or an error
C19_NoRuntimeFailure ==
    /\ mgrFailure = "none"
    /\ mgrRet.err \notin {PanicNilMap, PanicNewProvider}

====
